---- MODULE Spec2Model ----
(***************************************************************************)
(* Model of contact-parser: WebsiteCrawler (crawler.py), URLNormalizer     *)
(* (utils.py), ContactParser.parse_website (parser.py) and ContactInfo     *)
(* (models.py).  URLs, e-mail addresses and phone numbers are strings and  *)
(* are handled character by character, as the Python code handles them.    *)
(***************************************************************************)
EXTENDS Integers, Sequences, FiniteSets, TLC

(***************************************************************************)
(* Bounds of the model.                                                    *)
(***************************************************************************)
MaxPagesBound == 2
MaxWorkersBound == 2
Timeout == 1

(***************************************************************************)
(* Program constants.                                                      *)
(***************************************************************************)
Grace == 5
MaxClock == Timeout + Grace + 2

(***************************************************************************)
(* String helpers (str.startswith, str.endswith, str.find, str.rstrip).    *)
(* TheOne({e : v \in {s}}) is e with v standing for the value of s.        *)
(***************************************************************************)
TheOne(S) == CHOOSE v \in S : TRUE

CharAt(s, i) == SubSeq(s, i, i)

StartsWith(s, p) == Len(p) <= Len(s) /\ SubSeq(s, 1, Len(p)) = p

EndsWith(s, p) == Len(p) <= Len(s) /\ SubSeq(s, Len(s) - Len(p) + 1, Len(s)) = p

StartsWithAny(s, ps) == \E p \in ps : StartsWith(s, p)

\* str.find for a set of one-character delimiters: the first position at or
\* after from that holds one of them, 0 when there is none.
FindAny(s, cs, from) ==
    TheOne({ IF hits = {} THEN 0 ELSE CHOOSE i \in hits : \A j \in hits : i <= j :
             hits \in {TheOne({ {i \in from..Len(v) : CharAt(v, i) \in cs} : v \in {s} })} })

RECURSIVE RStrip(_, _)
RStrip(s, c) ==
    TheOne({ IF Len(v) > 0 /\ CharAt(v, Len(v)) = c THEN RStrip(SubSeq(v, 1, Len(v) - 1), c)
             ELSE v : v \in {s} })

\* str.rfind: the last position at or before from that holds c, 0 when there
\* is none.
RFind(s, c, from) ==
    TheOne({ IF hits = {} THEN 0 ELSE CHOOSE i \in hits : \A j \in hits : j <= i :
             hits \in {TheOne({ {i \in 1..from : CharAt(v, i) = c} : v \in {s} })} })

\* str.lower on ASCII text
UpperToLower ==
    [c \in {"A", "B", "C", "D", "E", "F", "G", "H", "I", "J", "K", "L", "M", "N", "O", "P",
            "Q", "R", "S", "T", "U", "V", "W", "X", "Y", "Z"} |->
        CASE c = "A" -> "a" [] c = "B" -> "b" [] c = "C" -> "c" [] c = "D" -> "d"
          [] c = "E" -> "e" [] c = "F" -> "f" [] c = "G" -> "g" [] c = "H" -> "h"
          [] c = "I" -> "i" [] c = "J" -> "j" [] c = "K" -> "k" [] c = "L" -> "l"
          [] c = "M" -> "m" [] c = "N" -> "n" [] c = "O" -> "o" [] c = "P" -> "p"
          [] c = "Q" -> "q" [] c = "R" -> "r" [] c = "S" -> "s" [] c = "T" -> "t"
          [] c = "U" -> "u" [] c = "V" -> "v" [] c = "W" -> "w" [] c = "X" -> "x"
          [] c = "Y" -> "y" [] c = "Z" -> "z"]

RECURSIVE Lower(_)
Lower(s) ==
    TheOne({ IF v = "" THEN ""
             ELSE (IF CharAt(v, 1) \in DOMAIN UpperToLower THEN UpperToLower[CharAt(v, 1)]
                   ELSE CharAt(v, 1)) \o Lower(SubSeq(v, 2, Len(v))) : v \in {s} })

SchemeChars ==
    {"a", "b", "c", "d", "e", "f", "g", "h", "i", "j", "k", "l", "m", "n", "o", "p", "q",
     "r", "s", "t", "u", "v", "w", "x", "y", "z", "0", "1", "2", "3", "4", "5", "6", "7",
     "8", "9", "+", "-", "."} \cup DOMAIN UpperToLower

Letters ==
    {"a", "b", "c", "d", "e", "f", "g", "h", "i", "j", "k", "l", "m", "n", "o", "p", "q",
     "r", "s", "t", "u", "v", "w", "x", "y", "z"} \cup DOMAIN UpperToLower

(***************************************************************************)
(* urllib.parse.urlparse, as used by URLNormalizer: the scheme is what     *)
(* stands before the first ':' when it starts with a letter and is made of *)
(* scheme characters, the netloc is what follows "//" up to the next '/',  *)
(* '?' or '#', then the fragment and the query are split off the rest,      *)
(* which is the path.                                                      *)
(***************************************************************************)
HasScheme(url, colon) ==
    /\ colon > 1
    /\ CharAt(url, 1) \in Letters
    /\ \A i \in 1..(colon - 1) : CharAt(url, i) \in SchemeChars

\* <<scheme, rest>>
SplitScheme(url) ==
    TheOne({ IF HasScheme(v, colon)
             THEN <<Lower(SubSeq(v, 1, colon - 1)), SubSeq(v, colon + 1, Len(v))>>
             ELSE <<"", v>> : v \in {url}, colon \in {FindAny(url, {":"}, 1)} })

\* <<netloc, rest>>
SplitNetloc(rest) ==
    TheOne({ IF ~StartsWith(v, "//") THEN <<"", v>>
             ELSE IF delim = 0 THEN <<SubSeq(v, 3, Len(v)), "">>
             ELSE <<SubSeq(v, 3, delim - 1), SubSeq(v, delim, Len(v))>> :
             v \in {rest}, delim \in {FindAny(rest, {"/", "?", "#"}, 3)} })

\* s.split(c, 1), with "" for a missing second part
SplitAt(s, c) ==
    TheOne({ IF i = 0 THEN <<v, "">>
             ELSE <<SubSeq(v, 1, i - 1), SubSeq(v, i + 1, Len(v))>> :
             v \in {s}, i \in {FindAny(s, {c}, 1)} })

\* The schemes of urllib.parse.uses_params.
UsesParams ==
    {"", "ftp", "hdl", "prospero", "http", "imap", "https", "shttp", "rtsp", "rtspu", "sip",
     "sips", "mms", "sftp", "tel"}

\* urllib.parse._splitparams: <<path, params>>, the parameters being what
\* follows the first ';' of the last segment of the path.
SplitParams(path) ==
    TheOne({ IF semi = 0 THEN <<v, "">>
             ELSE <<SubSeq(v, 1, semi - 1), SubSeq(v, semi + 1, Len(v))>> :
             v \in {path},
             semi \in {TheOne({ FindAny(path, {";"}, IF slash = 0 THEN 1 ELSE slash) :
                                slash \in {RFind(path, "/", Len(path))} })} })

ParsePath(scheme, netloc, rest) ==
    TheOne({ [scheme |-> scheme, netloc |-> netloc, path |-> pp[1], params |-> pp[2],
              query |-> pq[2], fragment |-> pf[2]] :
             pf \in {SplitAt(rest, "#")}, pq \in {SplitAt(SplitAt(rest, "#")[1], "?")},
             pp \in {IF scheme \in UsesParams
                     THEN SplitParams(SplitAt(SplitAt(rest, "#")[1], "?")[1])
                     ELSE <<SplitAt(SplitAt(rest, "#")[1], "?")[1], "">>} })

urlparse(url) ==
    TheOne({ TheOne({ ParsePath(sr[1], nr[1], nr[2]) : nr \in {SplitNetloc(sr[2])} }) :
             sr \in {SplitScheme(url)} })

\* urllib.parse.urljoin for the references a page can hold: a reference with
\* a scheme of its own is taken as it is, "//host/..." takes the scheme of
\* the base, a path starting with '/' replaces the path of the base, any
\* other path is resolved against the directory of the base path.
QueryAndFragment(u) ==
    (IF u.params = "" THEN "" ELSE ";" \o u.params)
    \o (IF u.query = "" THEN "" ELSE "?" \o u.query)
    \o (IF u.fragment = "" THEN "" ELSE "#" \o u.fragment)

BaseDirectory(path) ==
    TheOne({ IF slash = 0 THEN "/" ELSE SubSeq(path, 1, slash) :
             slash \in {RFind(path, "/", Len(path))} })

JoinParsed(base, url, b, u) ==
    IF base = "" THEN url
    ELSE IF url = "" THEN base
    ELSE IF u.scheme # "" /\ (u.scheme # b.scheme \/ u.scheme \notin {"http", "https", "ftp"})
    THEN url
    ELSE IF u.netloc # "" THEN b.scheme \o "://" \o u.netloc \o u.path \o QueryAndFragment(u)
    ELSE IF u.path = "" /\ u.params = ""
    THEN b.scheme \o "://" \o b.netloc \o b.path
         \o (IF b.params = "" THEN "" ELSE ";" \o b.params)
         \o (IF u.query # "" THEN "?" \o u.query
             ELSE IF b.query # "" THEN "?" \o b.query ELSE "")
         \o (IF u.fragment = "" THEN "" ELSE "#" \o u.fragment)
    ELSE IF StartsWith(u.path, "/")
    THEN b.scheme \o "://" \o b.netloc \o u.path \o QueryAndFragment(u)
    ELSE b.scheme \o "://" \o b.netloc \o BaseDirectory(b.path) \o u.path
         \o QueryAndFragment(u)

urljoin(base, url) ==
    TheOne({ JoinParsed(base, url, b, u) : b \in {urlparse(base)}, u \in {urlparse(url)} })

(***************************************************************************)
(* URLNormalizer (utils.py).  None is Python's None.                       *)
(***************************************************************************)
None == "<None>"

\* None where the value would be a dict or an object.
NoneDict == [none |-> TRUE]

\* str.strip() on the references of the model: blanks at both ends.
RECURSIVE LStrip(_, _)
LStrip(s, c) ==
    TheOne({ IF Len(v) > 0 /\ CharAt(v, 1) = c THEN LStrip(SubSeq(v, 2, Len(v)), c)
             ELSE v : v \in {s} })

\* The whitespace str.strip() removes.
Whitespace == {" ", "\t", "\n", "\r"}

RECURSIVE RStripAny(_, _)
RStripAny(s, cs) ==
    TheOne({ IF Len(v) > 0 /\ CharAt(v, Len(v)) \in cs
             THEN RStripAny(SubSeq(v, 1, Len(v) - 1), cs)
             ELSE v : v \in {s} })

RECURSIVE LStripAny(_, _)
LStripAny(s, cs) ==
    TheOne({ IF Len(v) > 0 /\ CharAt(v, 1) \in cs THEN LStripAny(SubSeq(v, 2, Len(v)), cs)
             ELSE v : v \in {s} })

Strip(s) == LStripAny(RStripAny(s, Whitespace), Whitespace)

SkippedPrefixes == {"#", "mailto:", "tel:", "javascript:", "data:"}

NormalizedForm(parsed) ==
    IF parsed.scheme = "" \/ parsed.netloc = "" THEN None
    ELSE RStrip(parsed.scheme \o "://" \o parsed.netloc \o parsed.path, "/")

normalize_url(url, base_url) ==
    TheOne({ IF stripped = "" \/ StartsWithAny(stripped, SkippedPrefixes) THEN None
             ELSE TheOne({ NormalizedForm(urlparse(absolute_url)) :
                           absolute_url \in {urljoin(base_url, stripped)} }) :
             stripped \in {Strip(url)} })

is_same_domain(url, base_domain) ==
    TheOne({ IF Strip(url) = "" THEN FALSE
             ELSE IF parsed.netloc # ""
             THEN parsed.netloc = base_domain \/ EndsWith(parsed.netloc, "." \o base_domain)
             ELSE StartsWithAny(url, {"/", "./", "../"}) :
             parsed \in {urlparse(url)} })

validate_url_either(url) ==
    TheOne({ parsed.scheme # "" \/ parsed.netloc # "" : parsed \in {urlparse(url)} })

validate_url(url) ==
    TheOne({ parsed.scheme # "" /\ parsed.netloc # "" : parsed \in {urlparse(url)} })

\* url.split(":")[0]
BeforeColon(url) == SplitAt(url, ":")[1]

\* parsed.hostname in the place of parsed.netloc: the port is dropped.
get_domain_hostname(url) ==
    TheOne({ IF Strip(url) = "" \/ parsed.netloc = "" THEN None
             ELSE SplitAt(parsed.netloc, ":")[1] :
             parsed \in {urlparse(url)} })

get_domain(url) ==
    TheOne({ IF Strip(url) = "" THEN None
             ELSE IF parsed.netloc = ""
             THEN (IF FindAny(url, {"."}, 1) # 0 /\ FindAny(BeforeColon(url), {"/"}, 1) = 0
                   THEN url ELSE None)
             ELSE parsed.netloc :
             parsed \in {urlparse(url)} })

(***************************************************************************)
(* The web the crawler runs against.  A page body is given by what it      *)
(* holds: the e-mail addresses and phone numbers an extraction finds in it *)
(* and the href values of its anchors.                                     *)
(***************************************************************************)
Seeds ==
    {"https://example.com", "http://sub.example.com/a", "https://example.com:8080/",
     "ftp://example.com", "invalid-url", "", "//example.com/a", "http:///a"}

Bodies ==
    { [emails |-> {}, phones |-> {}, hrefs |-> {}],
      [emails |-> {"test@gmail.com"}, phones |-> {"+79991234567"}, hrefs |-> {}],
      [emails |-> {"info@firm.org"}, phones |-> {},
       hrefs |-> {"/a", "https://example.com/b/", "https://evil.com/x", "#top"}],
      [emails |-> {"test@gmail.com", "info@firm.org"}, phones |-> {"+375296167777"},
       hrefs |-> {"https://example.com", "/b?x=1", "https://notexample.com",
                  "//sub.example.com/a", "mailto:info@firm.org"}] }

\* What the network can answer to session.get(url): a page, or one of the
\* failures fetch_page tells apart.  requests refuses a scheme it has no
\* adapter for (InvalidSchema, a RequestException).
FailureKinds == {"timeout", "redirects", "neterr", "ctype", "oversize", "other"}

Responses(url) ==
    IF SplitScheme(url)[1] \in {"http", "https"}
    THEN [kind : {"ok"}, body : Bodies]
         \cup [kind : FailureKinds, body : {[emails |-> {}, phones |-> {}, hrefs |-> {}]}]
    ELSE [kind : {"neterr"}, body : {[emails |-> {}, phones |-> {}, hrefs |-> {}]}]

(***************************************************************************)
(* State.                                                                  *)
(***************************************************************************)
VARIABLES
    pc,             \* where parse_website / crawl stands
    start_url,      \* argument of parse_website
    max_pages,      \* settings.max_pages
    max_workers,    \* settings.max_workers
    base_domain,    \* crawl: base_domain
    visited,        \* crawl: visited
    to_visit,       \* crawl: to_visit
    results,        \* crawl: results
    futures,        \* crawl: future_to_url, each future running or done
    yielded,        \* futures that as_completed has handed to the loop body
    cache,          \* WebsiteCrawler._cache
    elapsed,        \* time.time() - start_time
    round_start,    \* value of elapsed when the current batch was submitted
    ever_frontier,  \* history: every URL that was ever put in to_visit
    fetched,        \* history: every URL session.get was called for
    contact,        \* value returned by parse_website
    call,           \* the last call of a validator: its arguments and what it returned
    last_fetch      \* history: the last call of fetch_page and what it did

vars == <<pc, start_url, max_pages, max_workers, base_domain, visited, to_visit, results,
          futures, yielded, cache, elapsed, round_start, ever_frontier, fetched, contact,
          call, last_fetch>>

\* No validator was called yet.
NoCall ==
    [op |-> "", page |-> "", arg |-> "", lib |-> "", step |-> "", result |-> "", raised |-> ""]

\* fetch_page was not called yet.
NoFetch == [url |-> None, kind |-> "", page |-> NoneDict, network |-> FALSE]

Running == [state |-> "running"]

NoFutures == [u \in {} |-> Running]

Init ==
    /\ pc = "start"
    /\ start_url \in Seeds
    /\ max_pages \in 1..MaxPagesBound
    /\ max_workers \in 1..MaxWorkersBound
    /\ base_domain = None
    /\ visited = {}
    /\ to_visit = {}
    /\ results = <<>>
    /\ futures = NoFutures
    /\ yielded = {}
    /\ cache = [u \in {} |-> NoneDict]
    /\ elapsed = 0
    /\ round_start = 0
    /\ ever_frontier = {}
    /\ fetched = {}
    /\ contact = NoneDict
    /\ call = NoCall
    /\ last_fetch = NoFetch

(***************************************************************************)
(* WebsiteCrawler.fetch_page and process_page (worker thread).             *)
(***************************************************************************)
\* A fetch_page that returns the page whatever the size of the body is.
fetch_page_any_size(url, resp) ==
    IF resp.kind \in {"ok", "oversize"}
    THEN [raised |-> "", page |-> [url |-> url, html |-> resp.body]]
    ELSE IF resp.kind \in {"timeout", "redirects", "neterr"}
    THEN [raised |-> "NetworkError", page |-> NoneDict]
    ELSE IF resp.kind = "ctype" THEN [raised |-> "ContentTypeError", page |-> NoneDict]
    ELSE [raised |-> "Exception", page |-> NoneDict]

\* fetch_page(url) for the answer resp of the network: the page data it
\* returns (None for an oversized body) or the exception it raises.
fetch_page(url, resp) ==
    IF resp.kind = "ok" THEN [raised |-> "", page |-> [url |-> url, html |-> resp.body]]
    ELSE IF resp.kind = "oversize" THEN [raised |-> "", page |-> NoneDict]
    ELSE IF resp.kind \in {"timeout", "redirects", "neterr"}
    THEN [raised |-> "NetworkError", page |-> NoneDict]
    ELSE IF resp.kind = "ctype" THEN [raised |-> "ContentTypeError", page |-> NoneDict]
    ELSE [raised |-> "Exception", page |-> NoneDict]

\* DataExtractor._extract_links(tree) on the href values of the anchors.
extract_links(html) ==
    {href \in {Strip(h) : h \in html.hrefs} :
        href # "" /\ ~StartsWithAny(href, {"#", "javascript:", "mailto:", "tel:"})}

\* DataExtractor.extract_from_html(self, html) applied to a page body.
extract_from_html(html) ==
    [emails |-> html.emails, phones |-> html.phones, links |-> extract_links(html)]

\* The call process_page makes: extract_from_html(page_data["html"], url).
\* The method takes one argument besides self, so the call raises TypeError
\* before the body of extract_from_html runs.
extract_call_one_argument(html, url) ==
    [raised |-> "", value |-> extract_from_html(html)]

extract_call(html, url) ==
    [raised |-> "TypeError", value |-> NoneDict]

filter_links(links, url, base) ==
    {normalized \in {normalize_url(link, url) : link \in links} :
        normalized # None /\ is_same_domain(normalized, base)}

\* process_page(url, base_domain) given what fetch_page did: the tuple
\* (url, result, new_links) the future holds.
process_page(url, base, fetch) ==
    LET failed == [state |-> "done", url |-> url, result |-> NoneDict, links |-> {}]
    IN  IF fetch.raised # "" THEN failed
        ELSE IF fetch.page = NoneDict THEN failed
        ELSE LET extracted == extract_call(fetch.page.html, url)
             IN  IF extracted.raised # "" THEN failed
                 ELSE LET filtered == filter_links(extracted.value.links, url, base)
                      IN  [state |-> "done", url |-> url,
                           result |-> [url |-> url,
                                       emails |-> extracted.value.emails,
                                       phones |-> extracted.value.phones,
                                       links |-> filtered],
                           links |-> filtered]

\* A worker task that marks its URL visited itself.
TaskRun_shared(u) ==
    /\ pc = "wait"
    /\ u \in DOMAIN futures
    /\ futures[u] = Running
    /\ futures' = [futures EXCEPT ![u] =
                      [state |-> "done", url |-> u, result |-> NoneDict, links |-> {}]]
    /\ visited' = visited \cup {u}
    /\ UNCHANGED <<pc, start_url, max_pages, max_workers, base_domain, to_visit, results,
                   yielded, cache, elapsed, round_start, ever_frontier, fetched, contact,
                   call, last_fetch>>

\* One worker thread runs process_page(url, base_domain) to its end.
TaskRun(u) ==
    /\ pc = "wait"
    /\ u \in DOMAIN futures
    /\ futures[u] = Running
    /\ IF u \in DOMAIN cache
       THEN /\ futures' = [futures EXCEPT ![u] =
                               process_page(u, base_domain, [raised |-> "", page |-> cache[u]])]
            /\ last_fetch' = [url |-> u, kind |-> "cached", page |-> cache[u],
                              network |-> FALSE]
            /\ UNCHANGED <<cache, fetched>>
       ELSE \E resp \in Responses(u) :
              LET fetch == fetch_page(u, resp)
              IN  /\ futures' = [futures EXCEPT ![u] = process_page(u, base_domain, fetch)]
                  /\ fetched' = fetched \cup {u}
                  /\ last_fetch' = [url |-> u, kind |-> resp.kind, page |-> fetch.page,
                                    network |-> TRUE]
                  /\ cache' = IF fetch.raised = "" /\ fetch.page # NoneDict
                              THEN [v \in DOMAIN cache \cup {u} |->
                                       IF v = u THEN fetch.page ELSE cache[v]]
                              ELSE cache
    /\ UNCHANGED <<pc, start_url, max_pages, max_workers, base_domain, visited, to_visit,
                   results, yielded, elapsed, round_start, ever_frontier, contact>>
    /\ UNCHANGED call

(***************************************************************************)
(* WebsiteCrawler.crawl (the thread that called parse_website).            *)
(***************************************************************************)
CrawlBegin ==
    /\ pc = "start"
    /\ IF ~validate_url(start_url) \/ get_domain(start_url) = None
       THEN /\ pc' = "crawl_raised"
            /\ UNCHANGED <<base_domain, visited, to_visit, results, ever_frontier>>
       ELSE /\ pc' = "loop"
            /\ base_domain' = get_domain(start_url)
            /\ visited' = {}
            /\ to_visit' = {start_url}
            /\ results' = <<>>
            /\ ever_frontier' = {start_url}
    /\ elapsed' = 0
    /\ UNCHANGED <<start_url, max_pages, max_workers, futures, yielded, cache, round_start,
                   fetched, contact>>
    /\ UNCHANGED call
    /\ UNCHANGED last_fetch

max_time == Timeout * max_pages

loop_guard_off_by_one == to_visit # {} /\ Cardinality(visited) < max_pages - 1

loop_guard == to_visit # {} /\ Cardinality(visited) < max_pages

\* list(to_visit)[:max_workers]: the first max_workers elements in the
\* iteration order of the set, which is not specified.
Batches ==
    {b \in SUBSET to_visit :
        Cardinality(b) = IF Cardinality(to_visit) < max_workers
                         THEN Cardinality(to_visit) ELSE max_workers}

\* The while condition is false: the loop is left.
LoopExit ==
    /\ pc = "loop"
    /\ ~loop_guard
    /\ pc' = "crawl_done"
    /\ UNCHANGED <<start_url, max_pages, max_workers, base_domain, visited, to_visit, results,
                   futures, yielded, cache, elapsed, round_start, ever_frontier, fetched,
                   contact>>
    /\ UNCHANGED call
    /\ UNCHANGED last_fetch

\* The time budget is spent: break.
TimeBreak ==
    /\ pc = "loop"
    /\ loop_guard
    /\ elapsed > max_time
    /\ pc' = "crawl_done"
    /\ UNCHANGED <<start_url, max_pages, max_workers, base_domain, visited, to_visit, results,
                   futures, yielded, cache, elapsed, round_start, ever_frontier, fetched,
                   contact>>
    /\ UNCHANGED call
    /\ UNCHANGED last_fetch

\* A dispatch that leaves the batch in to_visit.
Dispatch_keep ==
    /\ pc = "loop"
    /\ loop_guard
    /\ ~(elapsed > max_time)
    /\ \E batch \in Batches : futures' = [u \in batch |-> Running]
    /\ yielded' = {}
    /\ round_start' = elapsed
    /\ pc' = "wait"
    /\ UNCHANGED <<start_url, max_pages, max_workers, base_domain, visited, to_visit, results,
                   cache, elapsed, ever_frontier, fetched, contact, call, last_fetch>>

\* A batch is taken out of to_visit and one task per URL is submitted.
Dispatch ==
    /\ pc = "loop"
    /\ loop_guard
    /\ ~(elapsed > max_time)
    /\ \E batch \in Batches :
         /\ to_visit' = to_visit \ batch
         /\ futures' = [u \in batch |-> Running]
    /\ yielded' = {}
    /\ round_start' = elapsed
    /\ pc' = "wait"
    /\ UNCHANGED <<start_url, max_pages, max_workers, base_domain, visited, results, cache,
                   elapsed, ever_frontier, fetched, contact>>
    /\ UNCHANGED call
    /\ UNCHANGED last_fetch

\* The body of "for future in as_completed(future_to_url)" for a future that
\* is done.  as_completed has no timeout: it hands out done futures only.
consume_no_mark(fut) ==
    IF fut.result # NoneDict
    THEN [visited |-> visited \cup {fut.url},
          results |-> Append(results, fut.result),
          to_visit |-> to_visit \cup
              {l \in fut.links : l \notin visited \cup {fut.url} /\ l \notin to_visit}]
    ELSE [visited |-> visited, results |-> results, to_visit |-> to_visit]

consume(fut) ==
    IF fut.result # NoneDict
    THEN [visited |-> visited \cup {fut.url},
          results |-> Append(results, fut.result),
          to_visit |-> to_visit \cup
              {l \in fut.links : l \notin visited \cup {fut.url} /\ l \notin to_visit}]
    ELSE [visited |-> visited \cup {fut.url}, results |-> results, to_visit |-> to_visit]

ConsumeFuture(u) ==
    /\ pc = "wait"
    /\ u \in DOMAIN futures
    /\ futures[u] # Running
    /\ u \notin yielded
    /\ yielded' = yielded \cup {u}
    /\ visited' = consume(futures[u]).visited
    /\ results' = consume(futures[u]).results
    /\ to_visit' = consume(futures[u]).to_visit
    /\ ever_frontier' = ever_frontier \cup consume(futures[u]).to_visit
    /\ UNCHANGED <<pc, start_url, max_pages, max_workers, base_domain, futures, cache, elapsed,
                   round_start, fetched, contact>>
    /\ UNCHANGED call
    /\ UNCHANGED last_fetch

\* A round that is given up as soon as the time budget is spent.
RoundEnd_preemptive ==
    /\ pc = "wait"
    /\ yielded = DOMAIN futures \/ elapsed > max_time
    /\ pc' = "loop"
    /\ UNCHANGED <<start_url, max_pages, max_workers, base_domain, visited, to_visit, results,
                   futures, yielded, cache, elapsed, round_start, ever_frontier, fetched,
                   contact, call, last_fetch>>

\* Every future of the batch was handed out: sleep, log, next iteration.
RoundEnd ==
    /\ pc = "wait"
    /\ yielded = DOMAIN futures
    /\ pc' = "loop"
    /\ UNCHANGED <<start_url, max_pages, max_workers, base_domain, visited, to_visit, results,
                   futures, yielded, cache, elapsed, round_start, ever_frontier, fetched,
                   contact>>
    /\ UNCHANGED call
    /\ UNCHANGED last_fetch

\* Time passes while crawl() runs.
Tick ==
    /\ pc \in {"loop", "wait"}
    /\ elapsed < MaxClock
    /\ elapsed' = elapsed + 1
    /\ UNCHANGED <<pc, start_url, max_pages, max_workers, base_domain, visited, to_visit,
                   results, futures, yielded, cache, round_start, ever_frontier, fetched,
                   contact>>
    /\ UNCHANGED call
    /\ UNCHANGED last_fetch

(***************************************************************************)
(* ContactInfo (models.py) and ContactParser.parse_website (parser.py).    *)
(***************************************************************************)
Digits == {"0", "1", "2", "3", "4", "5", "6", "7", "8", "9"}

\* the number of characters of s that are in cs
CountIn(s, cs) == TheOne({ Cardinality({i \in 1..Len(v) : CharAt(v, i) \in cs}) : v \in {s} })

\* email.split("@")[1]: what stands between the first '@' and the next one.
AfterAt(email) == SplitAt(SplitAt(email, "@")[2], "@")[1]

RECURSIVE validate_emails_list(_)
validate_emails_list(emails) ==
    IF emails = <<>> THEN <<>>
    ELSE LET email == Head(emails)
         IN  (IF FindAny(email, {"@"}, 1) # 0 /\ FindAny(AfterAt(email), {"."}, 1) # 0
              THEN <<Strip(Lower(email))>> ELSE <<>>)
             \o validate_emails_list(Tail(emails))

RECURSIVE validate_phones_list(_)
validate_phones_list(phones) ==
    IF phones = <<>> THEN <<>>
    ELSE LET phone == Head(phones)
             digits == CountIn(phone, Digits)
         IN  (IF 6 <= digits /\ digits <= 15 THEN <<Strip(phone)>> ELSE <<>>)
             \o validate_phones_list(Tail(phones))

\* pydantic HttpUrl: an http or https URL with a host.
HttpUrl(url) ==
    TheOne({ parsed.scheme \in {"http", "https"} /\ parsed.netloc # "" :
             parsed \in {urlparse(url)} })

\* The text of a validated HttpUrl: an empty path becomes "/".
HttpUrlText(url) ==
    TheOne({ IF StartsWith(nr[2], "/") THEN url
             ELSE sr[1] \o "://" \o nr[1] \o "/" \o nr[2] :
             sr \in {SplitScheme(url)}, nr \in {SplitNetloc(SplitScheme(url)[2])} })

\* list(s) for a Python set s: its elements once each, in an order that is
\* not specified.
Lists(S) == {l \in [1..Cardinality(S) -> S] : \A i, j \in DOMAIN l : l[i] = l[j] => i = j}

RECURSIVE UnionOver(_, _)
\* all_emails / all_phones after the loop over crawled_pages
UnionOver(pages, field) ==
    IF pages = <<>> THEN {}
    ELSE Head(pages)[field] \cup UnionOver(Tail(pages), field)

\* The except branch of parse_website: ContactInfo(url=start_url, ...) and,
\* when that raises, ContactInfo(url="https://error.invalid", ...).
fallback_contact_unguarded(url) ==
    IF HttpUrl(url) THEN [url |-> HttpUrlText(url), emails |-> <<>>, phones |-> <<>>]
    ELSE [raised |-> "ValidationError"]

fallback_contact(url) ==
    IF HttpUrl(url) THEN [url |-> HttpUrlText(url), emails |-> <<>>, phones |-> <<>>]
    ELSE [url |-> HttpUrlText("https://error.invalid"), emails |-> <<>>, phones |-> <<>>]

\* crawl() returned crawled_pages = results.
ParseWebsiteReturn ==
    /\ pc = "crawl_done"
    /\ pc' = "done"
    /\ \E emails \in Lists(UnionOver(results, "emails")) :
         \E phones \in Lists(UnionOver(results, "phones")) :
            contact' = IF HttpUrl(start_url)
                       THEN [url |-> HttpUrlText(start_url),
                             emails |-> validate_emails_list(emails),
                             phones |-> validate_phones_list(phones)]
                       ELSE fallback_contact(start_url)
    /\ UNCHANGED <<start_url, max_pages, max_workers, base_domain, visited, to_visit, results,
                   futures, yielded, cache, elapsed, round_start, ever_frontier, fetched>>
    /\ UNCHANGED call
    /\ UNCHANGED last_fetch

\* crawl() raised.
ParseWebsiteExcept ==
    /\ pc = "crawl_raised"
    /\ pc' = "done"
    /\ contact' = fallback_contact(start_url)
    /\ UNCHANGED <<start_url, max_pages, max_workers, base_domain, visited, to_visit, results,
                   futures, yielded, cache, elapsed, round_start, ever_frontier, fetched>>
    /\ UNCHANGED call
    /\ UNCHANGED last_fetch

\* parse_website is called again on the same ContactParser: its crawler
\* (parser.py, __init__) and the crawler's _cache are the ones of the calls
\* before; the locals of the call that returned are gone.
AgainSeeds == {"https://example.com", "http://sub.example.com/a", "invalid-url"}

MaxCached == 2

ParseWebsiteAgain ==
    /\ pc = "done"
    /\ Cardinality(DOMAIN cache) < MaxCached
    /\ pc' = "start"
    /\ start_url' \in AgainSeeds
    /\ base_domain' = None
    /\ visited' = {}
    /\ to_visit' = {}
    /\ results' = <<>>
    /\ futures' = NoFutures
    /\ yielded' = {}
    /\ elapsed' = 0
    /\ round_start' = 0
    /\ ever_frontier' = {}
    /\ fetched' = {}
    /\ contact' = NoneDict
    /\ last_fetch' = NoFetch
    /\ UNCHANGED <<max_pages, max_workers, cache, call>>

\* Order of str values in Python: by code point, a proper prefix first.
AsciiOrder == "%+-.0123456789@_abcdefghijklmnopqrstuvwxyz"

Ord(c) == FindAny(AsciiOrder, {c}, 1)

\* a < b for two str values: decided at the first position where they differ.
StrLess(a, b) ==
    TheOne({ IF diffs = {} THEN Len(a) < Len(b)
             ELSE TheOne({ Ord(CharAt(a, first)) < Ord(CharAt(b, first)) :
                           first \in {CHOOSE i \in diffs : \A j \in diffs : i <= j} }) :
             diffs \in {TheOne({ {i \in 1..(IF Len(x) < Len(y) THEN Len(x) ELSE Len(y)) :
                                    CharAt(x, i) # CharAt(y, i)} :
                                 x \in {a}, y \in {b} })} })

\* sorted(list(S)) for a set S of strings
RECURSIVE sorted_list(_)
sorted_list(S) ==
    IF S = {} THEN <<>>
    ELSE TheOne({ <<least>> \o sorted_list(S \ {least}) :
                  least \in {CHOOSE x \in S : \A y \in S \ {x} : StrLess(x, y)} })

(***************************************************************************)
(* PhoneValidator (validators.py).  A phone candidate is a string; the      *)
(* checks read it character by character.                                   *)
(***************************************************************************)
MIN_PHONE_LENGTH == 7

MAX_PHONE_LENGTH == 15

MIN_UNIQUE_DIGITS == 3

\* MAX_REPEAT_RATIO = 0.7, in tenths
MAX_REPEAT_RATIO_TENTHS == 7

VALID_COUNTRY_CODES ==
    {"1", "7", "20", "27", "30", "31", "32", "33", "34", "36", "39", "40", "41",
     "43", "44", "45", "46", "47", "48", "49", "51", "52", "53", "54", "55", "56",
     "57", "58", "60", "61", "62", "63", "64", "65", "66", "81", "82", "84", "86",
     "90", "91", "92", "93", "94", "95", "98", "211", "212", "213", "216", "218",
     "220", "221", "222", "223", "224", "225", "226", "227", "228", "229", "230",
     "231", "232", "233", "234", "235", "236", "237", "238", "239", "240", "241",
     "242", "243", "244", "245", "246", "247", "248", "249", "250", "251", "252",
     "253", "254", "255", "256", "257", "258", "259", "260", "261", "262", "263",
     "264", "265", "266", "267", "268", "269", "290", "291", "297", "298", "299",
     "350", "351", "352", "353", "354", "355", "356", "357", "358", "359", "370",
     "371", "372", "373", "374", "375", "376", "377", "378", "379", "380", "381",
     "382", "383", "385", "386", "387", "389", "420", "421", "423", "500", "501",
     "502", "503", "504", "505", "506", "507", "508", "509", "590", "591", "592",
     "593", "594", "595", "596", "597", "598", "599", "670", "672", "673", "674",
     "675", "676", "677", "678", "679", "680", "681", "682", "683", "685", "686",
     "687", "688", "689", "690", "691", "692", "850", "852", "853", "855", "856",
     "880", "886", "960", "961", "962", "963", "964", "965", "966", "967", "968",
     "970", "971", "972", "973", "974", "975", "976", "977", "992", "993", "994",
     "995", "996", "998"}

\* The prefixes of NOT_PHONE_PATTERNS: ^123456\d*$ ... ^654321\d*$
NOT_PHONE_RUNS ==
    {"123456", "234567", "345678", "456789", "567890",
     "098765", "987654", "876543", "765432", "654321"}

SUSPICIOUS_STARTS == {"494", "443", "475", "476", "172", "173"}

\* The characters of s that are in cs, in their order: re.sub(r"[^...]", "", s)
RECURSIVE KeepChars(_, _)
KeepChars(s, cs) ==
    TheOne({ IF v = "" THEN ""
             ELSE (IF CharAt(v, 1) \in cs THEN CharAt(v, 1) ELSE "")
                  \o KeepChars(SubSeq(v, 2, Len(v)), cs) : v \in {s} })

\* set(s)
CharSet(s) == TheOne({ {CharAt(v, i) : i \in 1..Len(v)} : v \in {s} })

\* s[::-1]
RECURSIVE Reversed(_)
Reversed(s) ==
    TheOne({ IF v = "" THEN "" ELSE Reversed(SubSeq(v, 2, Len(v))) \o CharAt(v, 1) :
             v \in {s} })

\* s * n
RECURSIVE Times(_, _)
Times(s, n) == IF n <= 0 THEN "" ELSE s \o Times(s, n - 1)

\* int(c) for a digit c
DigitValue(c) == FindAny("0123456789", {c}, 1) - 1

\* PhoneValidator._clean_phone(phone); "not phone" holds for "" and for None.
clean_phone(phone) ==
    IF phone = "" \/ phone = None THEN ""
    ELSE TheOne({ TheOne({ IF StartsWith(phone, "+") /\ ~StartsWith(cleaned, "+")
                           THEN "+" \o cleaned ELSE cleaned :
                           cleaned \in {IF FindAny(kept, {"+"}, 2) # 0
                                        THEN CharAt(kept, 1)
                                             \o KeepChars(SubSeq(kept, 2, Len(kept)), Digits)
                                        ELSE kept} }) :
                  kept \in {KeepChars(phone, Digits \cup {"+"})} })

\* NOT_PHONE_PATTERNS without the patterns of the runs.
matches_not_phone_pattern_no_runs(digits) ==
    \/ 1 <= Len(digits) /\ Len(digits) <= 5
    \/ Len(digits) >= 16
    \/ Len(digits) >= 6 /\ Cardinality(CharSet(digits)) = 1
    \/ Len(digits) >= 1 /\ CharSet(digits) \subseteq {"0", "1"}

\* One of NOT_PHONE_PATTERNS matches the digits.
matches_not_phone_pattern(digits) ==
    \/ 1 <= Len(digits) /\ Len(digits) <= 5
    \/ Len(digits) >= 16
    \/ Len(digits) >= 6 /\ Cardinality(CharSet(digits)) = 1
    \/ \E run \in NOT_PHONE_RUNS : StartsWith(digits, run)
    \/ Len(digits) >= 1 /\ CharSet(digits) \subseteq {"0", "1"}

is_sequential(digits) ==
    /\ Len(digits) >= 6
    /\ \E i \in 1..(Len(digits) - 5) :
         \/ \A j \in 0..5 :
              DigitValue(CharAt(digits, i + j)) = (DigitValue(CharAt(digits, i)) + j) % 10
         \/ \A j \in 0..5 :
              DigitValue(CharAt(digits, i + j)) = (DigitValue(CharAt(digits, i)) - j) % 10

is_too_perfect(digits) ==
    \/ Cardinality(CharSet(digits)) = 1
    \/ /\ Len(digits) >= 8
       /\ Cardinality(CharSet(SubSeq(digits, 1, 2))) = 2
       /\ Times(SubSeq(digits, 1, 2), Len(digits) \div 2)
            = SubSeq(digits, 1, (Len(digits) \div 2) * 2)
    \/ /\ Len(digits) >= 6
       /\ \/ digits = Reversed(digits)
          \/ /\ Len(digits) % 2 = 0
             /\ SubSeq(digits, 1, Len(digits) \div 2)
                  = Reversed(SubSeq(digits, Len(digits) \div 2 + 1, Len(digits)))

is_valid_local_number(digits) ==
    /\ CharAt(digits, 1) # "0"
    /\ Cardinality(CharSet(digits)) >= 3
    /\ ~(Len(digits) \in {8, 10} /\ Cardinality(CharSet(digits)) < 4)

\* max(digits.count(d) for d in set(digits))
max_repeat_count(digits) ==
    TheOne({ CHOOSE n \in counts : \A m \in counts : m <= n :
             counts \in {{CountIn(digits, {d}) : d \in CharSet(digits)}} })

\* is_likely_phone(phone): "" when the phone is accepted, else the check
\* that returns False, in the order of the code.
rejecting_step_of_digits(cleaned, digits) ==
    IF Len(digits) < MIN_PHONE_LENGTH \/ Len(digits) > MAX_PHONE_LENGTH THEN "length"
    ELSE IF ~(CharSet(digits) \subseteq Digits) THEN "non_digits"
    ELSE IF matches_not_phone_pattern(digits) THEN "not_phone_pattern"
    ELSE IF \E start \in SUSPICIOUS_STARTS : StartsWith(digits, start) THEN "suspicious_start"
    ELSE IF Cardinality(CharSet(digits)) < MIN_UNIQUE_DIGITS THEN "unique_digits"
    ELSE IF max_repeat_count(digits) * 10 > MAX_REPEAT_RATIO_TENTHS * Len(digits)
    THEN "repeat_ratio"
    ELSE IF Len(digits) >= 8 /\ is_sequential(digits) THEN "sequential"
    ELSE IF is_too_perfect(digits) THEN "too_perfect"
    ELSE IF StartsWith(cleaned, "+")
    THEN (IF \E i \in 1..(IF Len(digits) < 4 THEN Len(digits) ELSE 4) :
                /\ SubSeq(digits, 1, i) \in VALID_COUNTRY_CODES
                /\ 6 <= Len(digits) - i /\ Len(digits) - i <= 14
          THEN ""
          ELSE IF 8 <= Len(digits) /\ Len(digits) <= 14 THEN ""
          ELSE "international_format")
    ELSE IF 7 <= Len(digits) /\ Len(digits) <= 12 /\ is_valid_local_number(digits) THEN ""
    ELSE "local_format"

rejecting_step(phone) ==
    IF phone = "" THEN "empty"
    ELSE TheOne({ IF cleaned = "" THEN "empty"
                  ELSE TheOne({ rejecting_step_of_digits(cleaned, digits) :
                                digits \in {LStrip(cleaned, "+")} }) :
                  cleaned \in {clean_phone(phone)} })

is_likely_phone(phone) == rejecting_step(phone) = ""

\* The regions normalize_phone tries with phonenumbers, each with its
\* dialing code and its national prefix.
Regions ==
    { [code |-> "1", prefix |-> "1"], [code |-> "44", prefix |-> "0"],
      [code |-> "7", prefix |-> "8"], [code |-> "375", prefix |-> "8"],
      [code |-> "380", prefix |-> "0"], [code |-> "49", prefix |-> "0"],
      [code |-> "33", prefix |-> "0"], [code |-> "86", prefix |-> "0"],
      [code |-> "81", prefix |-> "0"] }

\* What the phonenumbers step of normalize_phone can come to for a cleaned
\* phone: None when the library is not installed or finds the number valid
\* in no region, else the E.164 form of the number in one of the regions.
PhoneNumbersAnswers(cleaned) ==
    TheOne({ {None} \cup
             (IF StartsWith(cleaned, "+") THEN {cleaned}
              ELSE {"+" \o r.code \o (IF StartsWith(digits, r.prefix)
                                      THEN SubSeq(digits, Len(r.prefix) + 1, Len(digits))
                                      ELSE digits) : r \in Regions}) :
             digits \in {LStrip(cleaned, "+")} })

\* The general rule of step 5 returning the digits as they are.
simple_normalization_bare(cleaned, digits) ==
    IF StartsWith(cleaned, "+") THEN cleaned
    ELSE IF 7 <= Len(digits) /\ Len(digits) <= 12 THEN digits
    ELSE None

\* Steps 3 to 5 of normalize_phone, on the cleaned phone.
simple_normalization(cleaned, digits) ==
    IF StartsWith(cleaned, "+") THEN cleaned
    ELSE IF Len(digits) = 10 /\ CharAt(digits, 1) \in {"7", "8", "9"} THEN "+7" \o digits
    ELSE IF Len(digits) = 11 /\ StartsWith(digits, "8")
    THEN "+7" \o SubSeq(digits, 2, Len(digits))
    ELSE IF Len(digits) = 11 /\ StartsWith(digits, "7") THEN "+" \o digits
    ELSE IF Len(digits) = 9 /\ SubSeq(digits, 1, 2) \in {"25", "29", "33", "44"}
    THEN "+375" \o digits
    ELSE IF Len(digits) = 12 /\ StartsWith(digits, "375") THEN "+" \o digits
    ELSE IF Len(digits) = 9 /\ SubSeq(digits, 1, 2) \in {"50", "66", "95", "99", "63", "73", "93"}
    THEN "+380" \o digits
    ELSE IF Len(digits) = 12 /\ StartsWith(digits, "380") THEN "+" \o digits
    ELSE IF 7 <= Len(digits) /\ Len(digits) <= 12 THEN "+" \o digits
    ELSE None

\* normalize_phone(phone) when the phonenumbers step comes to lib.
normalize_phone(phone, lib) ==
    IF phone = "" THEN None
    ELSE IF ~is_likely_phone(phone) THEN None
    ELSE IF lib # None THEN lib
    ELSE TheOne({ simple_normalization(cleaned, LStrip(cleaned, "+")) :
                  cleaned \in {clean_phone(phone)} })

\* The loop without the second is_likely_phone test.
validate_and_normalize_phones_unchecked(phones, lib) ==
    sorted_list({normalized \in {normalize_phone(p, lib[p]) : p \in phones} :
                    normalized # None})

\* validate_and_normalize_phones(phones) when the phonenumbers step comes to
\* lib[p] for the phone p.
validate_and_normalize_phones(phones, lib) ==
    sorted_list({normalized \in {normalize_phone(p, lib[p]) : p \in phones} :
                    normalized # None /\ is_likely_phone(normalized)})

(***************************************************************************)
(* EmailValidator (validators.py).                                         *)
(***************************************************************************)
BAD_DOMAINS ==
    {"example.com", "example.ru", "example.org", "test.com", "test.ru", "test.org",
     "domain.com", "domain.ru", "domain.org", "email.com", "email.ru", "email.org",
     "site.com", "site.ru", "site.org", "yoursite.com", "yourdomain.com"}

\* [a-zA-Z0-9._%+-]
LocalChars == Letters \cup Digits \cup {".", "_", "%", "+", "-"}

\* [a-zA-Z0-9.-]
DomainChars == Letters \cup Digits \cup {".", "-"}

\* What "$" lets a pattern end before: one newline at the end of the string.
DropFinalNewline(s) ==
    TheOne({ IF EndsWith(v, "\n") THEN SubSeq(v, 1, Len(v) - 1) ELSE v : v \in {s} })

\* re.match(r"^[a-zA-Z0-9._%+-]+$", local_part)
matches_local_part(local_part) ==
    TheOne({ t # "" /\ CharSet(t) \subseteq LocalChars :
             t \in {DropFinalNewline(local_part)} })

\* re.match(r"^[a-zA-Z0-9.-]+\.[a-zA-Z]{2,}$", domain)
matches_domain(domain) ==
    TheOne({ TheOne({ /\ dot >= 2
                      /\ CharSet(SubSeq(t, 1, dot - 1)) \subseteq DomainChars
                      /\ Len(t) - dot >= 2
                      /\ CharSet(SubSeq(t, dot + 1, Len(t))) \subseteq Letters :
                      dot \in {RFind(t, ".", Len(t))} }) :
             t \in {DropFinalNewline(domain)} })

\* The checks of is_valid_email on email.split("@", 1).
valid_parts(local_part, domain) ==
    /\ Len(local_part) <= 64 /\ Len(domain) <= 255
    /\ FindAny(domain, {"."}, 1) # 0
    /\ ~StartsWith(domain, ".") /\ ~EndsWith(domain, ".")
    /\ Lower(domain) \notin BAD_DOMAINS
    /\ matches_local_part(local_part)
    /\ matches_domain(domain)

is_valid_email(email) ==
    TheOne({ /\ v # ""
             /\ FindAny(v, {"@"}, 1) # 0
             /\ TheOne({ valid_parts(parts[1], parts[2]) : parts \in {SplitAt(v, "@")} }) :
             v \in {email} })

normalize_email(email) == Strip(Lower(email))

validate_and_normalize_emails(emails) ==
    sorted_list({normalized \in {normalize_email(email) : email \in emails} :
                    is_valid_email(normalized)})

\* A call of normalize_email: email.lower() on None raises AttributeError.
normalize_email_call(email) ==
    IF email = None THEN [raised |-> "AttributeError", value |-> None]
    ELSE [raised |-> "", value |-> normalize_email(email)]

\* A call of validate_and_normalize_emails: the loop calls normalize_email on
\* every element, nothing catches what it raises.
validate_and_normalize_emails_call(emails) ==
    IF \E email \in emails : normalize_email_call(email).raised # ""
    THEN [raised |-> "AttributeError", value |-> <<>>]
    ELSE [raised |-> "", value |-> validate_and_normalize_emails(emails)]

(***************************************************************************)
(* DataExtractor.extract_from_html step by step (extractors.py).  A parsed *)
(* page is given by what the patterns and the XPath queries find in it:    *)
(* text_emails and text_phones are the matches of the patterns of the      *)
(* settings in the text, mailto_emails and tel_phones come from the        *)
(* anchors, hrefs are the href values.  findall gives str values for a     *)
(* pattern with at most one group and tuples for a pattern with more.      *)
(***************************************************************************)
EmptyExtraction == [emails |-> {}, phones |-> {}, links |-> {}]

\* _extract_emails(text, tree) once the matches are str values.
extract_emails(html, settings) ==
    TheOne({ IF settings.enable_email_validation
             THEN TheOne({ {list[i] : i \in DOMAIN list} :
                           list \in {validate_and_normalize_emails(emails)} })
             ELSE {Strip(Lower(email)) : email \in emails} :
             emails \in {({Strip(email) : email \in html.text_emails} \ {""})
                         \cup html.mailto_emails} })

\* _extract_phones_with_validation(text, tree) once the matches are str values.
extract_phones_with_validation(html, lib) ==
    TheOne({ {list[i] : i \in DOMAIN list} :
             list \in {validate_and_normalize_phones(html.text_phones \cup html.tel_phones,
                                                     lib)} })

\* DataExtractor._normalize_phone_universal(phone)
normalize_phone_universal(phone) ==
    TheOne({ IF StartsWith(phone, "+") \/ Len(cleaned) < 10 THEN cleaned
             ELSE IF Len(cleaned) = 10 /\ CharAt(cleaned, 1) \in {"9", "8"} THEN "+7" \o cleaned
             ELSE IF Len(cleaned) = 11 /\ StartsWith(cleaned, "8")
             THEN "+7" \o SubSeq(cleaned, 2, Len(cleaned))
             ELSE IF Len(cleaned) = 11 /\ StartsWith(cleaned, "7") THEN "+" \o cleaned
             ELSE cleaned :
             cleaned \in {clean_phone(phone)} })

\* digits in s
IsSubstring(digits, s) ==
    \E i \in 0..(Len(s) - Len(digits)) : SubSeq(s, i + 1, i + Len(digits)) = digits

\* DataExtractor._is_valid_phone_universal(phone)
is_valid_phone_universal(phone) ==
    TheOne({ /\ digits # ""
             /\ CharSet(digits) \subseteq Digits
             /\ Len(digits) >= 8 /\ Len(digits) <= 15
             /\ Cardinality(CharSet(digits)) >= 3
             /\ ~IsSubstring(digits, "1234567890") /\ ~IsSubstring(digits, "0987654321")
             /\ CountIn(digits, {"0"}) * 10 <= Len(digits) * 7 :
             digits \in {LStrip(phone, "+")} })

\* _extract_phones_universal(text, tree) once the matches are str values.
extract_phones_universal(html) ==
    {normalized \in {normalize_phone_universal(phone) :
                        phone \in html.text_phones \cup html.tel_phones} :
        normalized # "" /\ is_valid_phone_universal(normalized)}

\* extract_from_html(html): the dict it returns and the step that raised
\* into its except branch ("" when none did).  A tuple among the matches
\* raises AttributeError at email.strip() in _extract_emails and at
\* phone.startswith in _normalize_phone_universal; is_likely_phone returns
\* False for what is not a str.
extract_from_html_call(html, settings, lib) ==
    IF ~html.parsed THEN [step |-> "", value |-> EmptyExtraction]
    ELSE IF settings.email_pattern_groups >= 2 /\ html.text_emails # {}
    THEN [step |-> "_extract_emails", value |-> EmptyExtraction]
    ELSE IF /\ ~settings.enable_phone_validation
            /\ settings.phone_pattern_groups >= 2 /\ html.text_phones # {}
    THEN [step |-> "_extract_phones_universal",
          value |-> [EmptyExtraction EXCEPT !.emails = extract_emails(html, settings)]]
    ELSE [step |-> "",
          value |-> [emails |-> extract_emails(html, settings),
                     phones |-> IF settings.enable_phone_validation
                                THEN extract_phones_with_validation(html, lib)
                                ELSE extract_phones_universal(html),
                     links |-> extract_links(html)]]

(***************************************************************************)
(* Specifications.                                                         *)
(***************************************************************************)
Next ==
    \/ CrawlBegin
    \/ LoopExit
    \/ TimeBreak
    \/ Dispatch
    \/ \E u \in DOMAIN futures : TaskRun(u)
    \/ \E u \in DOMAIN futures : ConsumeFuture(u)
    \/ RoundEnd
    \/ Tick
    \/ ParseWebsiteReturn
    \/ ParseWebsiteExcept

Spec == Init /\ [][Next]_vars

\* One ContactParser used for several calls of parse_website, the first one
\* for a URL of AgainSeeds.
InitAgain == Init /\ start_url \in AgainSeeds

NextAgain == Next \/ ParseWebsiteAgain

SpecAgain == InitAgain /\ [][NextAgain]_vars

\* The thread of crawl() runs on and every worker task ends; time need not
\* pass.
CrawlStep ==
    \/ CrawlBegin
    \/ LoopExit
    \/ TimeBreak
    \/ Dispatch
    \/ \E u \in DOMAIN futures : ConsumeFuture(u)
    \/ RoundEnd
    \/ ParseWebsiteReturn
    \/ ParseWebsiteExcept

LiveSpec ==
    /\ Init
    /\ [][Next]_vars
    /\ WF_vars(CrawlStep)
    /\ WF_vars(\E u \in DOMAIN futures : TaskRun(u))

(***************************************************************************)
(* parse_website on the records of a crawl, as the tests of parse_website  *)
(* run it: crawl() has returned a list of records, or has raised.          *)
(***************************************************************************)
MaxRecords == 2

ParseRecords ==
    { [url |-> "https://example.com", emails |-> {}, phones |-> {}, links |-> {}],
      [url |-> "https://example.com", emails |-> {"test@gmail.com"},
       phones |-> {"+79991234567"}, links |-> {}],
      [url |-> "https://example.com/about", emails |-> {"info@firm.org", "test@gmail.com"},
       phones |-> {"+375296167777"}, links |-> {}],
      [url |-> "https://example.com/sales", emails |-> {"sales@firm.org"},
       phones |-> {"+79991234567", "+15551234567"}, links |-> {}] }

RecordLists == UNION {[1..n -> ParseRecords] : n \in 0..MaxRecords}

InitParse ==
    /\ \/ /\ pc = "crawl_done"
          /\ start_url = "https://example.com"
          /\ results \in RecordLists
       \/ /\ pc = "crawl_raised"
          /\ start_url \in Seeds
          /\ results = <<>>
    /\ max_pages = 1
    /\ max_workers = 1
    /\ base_domain = None
    /\ visited = {}
    /\ to_visit = {}
    /\ futures = NoFutures
    /\ yielded = {}
    /\ cache = [u \in {} |-> NoneDict]
    /\ elapsed = 0
    /\ round_start = 0
    /\ ever_frontier = {}
    /\ fetched = {}
    /\ contact = NoneDict
    /\ call = NoCall
    /\ last_fetch = NoFetch

NextParse ==
    \/ ParseWebsiteReturn
    \/ ParseWebsiteExcept

SpecParse == InitParse /\ [][NextParse]_vars

(***************************************************************************)
(* The validators on the candidates of a page, as DataExtractor and the    *)
(* tests call them: one call at a time, each with its arguments.  The      *)
(* methods take no page URL; page is the URL of the page the candidates    *)
(* were found on (None when there is none).                                *)
(***************************************************************************)
MaxTail == 12

MaxBatch == 3

PageUrls == {None, "https://example.ru", "https://example.com"}

PhoneHeads ==
    {"", "+", "+7", "+375", "+49", "+494", "494", "8", "89", "+89", "0", "+1", "9", "+999"}

DigitStreams ==
    {"9165548271364", "1234567890123", "9991234567890", "0000000000000", "1212121212121",
     "5551234321555", "0124555501245", "1555627038455"}

\* A head followed by the first digits of a stream.
DigitCandidates ==
    {head \o SubSeq(stream, 1, n) : head \in PhoneHeads, stream \in DigitStreams, n \in 0..MaxTail}

FormattedPhones ==
    {"+7 (916) 554-82-71", "8 (916) 554-82-71", " +7916 5548271", "(+7) 916 554 82 71",
     "+375 29 616-77-77", "+1+2+3", "123+456", "abc", "tel: 291-234-567"}

PhoneCandidates == DigitCandidates \cup FormattedPhones

\* Arguments of _clean_phone: the phones of the tests, texts with a "+" in
\* other places, the empty string and None.
CleanCandidates ==
    FormattedPhones
    \cup {"+7 (999) 123-45-67", "8-916-123-45-67", "+1 (555) 123-4567", "", None, "+", "++7",
          "+7+", "7+9", "a+7", "+79161234567", "89161234567", "+-7", "7+"}

BatchPhones ==
    {"", "5551234", "+7 (916) 554-82-71", "8 (916) 554-82-71", "+375 29 616-77-77",
     "8901245555", "+15556270384", "12345678", "291655482"}

PhoneSets == {S \in SUBSET BatchPhones : Cardinality(S) <= MaxBatch}

\* The phonenumbers step for every phone of a batch: not available, or the
\* answer for one region.
BatchAnswers(phones) ==
    {[p \in phones |-> None]}
    \cup {[p \in phones |->
             TheOne({ IF StartsWith(cleaned, "+") THEN cleaned
                      ELSE CHOOSE a \in PhoneNumbersAnswers(cleaned) :
                             a # None /\ StartsWith(a, "+" \o r.code) :
                      cleaned \in {clean_phone(p)} })] : r \in Regions}

EmailLocals == {"admin", "Test", "user.name", "a!b", "", "x+y"}

EmailDomains ==
    {"example.com", "EXAMPLE.COM", "Site.Ru", "gmail.com", "Gmail.Com", "firm.org",
     "localhost", ".com", "com.", "a.b1", "x.co.uk", "b@c.de"}

EmailPads == {<<"", "">>, <<" ", "">>, <<"", " ">>, <<"", "\n">>, <<"\t", "  ">>}

EmailCandidates ==
    {pad[1] \o local \o "@" \o domain \o pad[2] :
        local \in EmailLocals, domain \in EmailDomains, pad \in EmailPads}
    \cup {"", "noat"}

BatchEmails ==
    {"", "info@firm.org", " Info@Firm.org", "admin@example.com", "Admin@EXAMPLE.COM ",
     "sales@firm.org", "test@gmail.com\n", "a!b@gmail.com", "x@localhost", None}

EmailSets == {S \in SUBSET BatchEmails : Cardinality(S) <= MaxBatch}

\* The references normalize_url is given: a start and a path with its query
\* and fragment, and the references it skips.
LinkStarts ==
    {"", " ", "/", "https://example.com/", "http://sub.example.com", "//cdn.example.com/",
     "HTTPS://Example.com/", "ftp://files.example.com/"}

LinkPaths ==
    {"", "a", "a/", "a/b", "b;p/", "b;p", "a;p/c/", ";", "a?x=1", "a/?x=1#f", "a#f", "a/ "}

SkippedLinks ==
    {"", "  ", "#top", " #top", "mailto:info@firm.org", "tel:+79991234567",
     "javascript:void(0)", "data:text/html,hi", "MAILTO:info@firm.org", "?q=1", "#"}

LinkCandidates == {start \o path : start \in LinkStarts, path \in LinkPaths} \cup SkippedLinks

BaseUrls ==
    {"https://example.com", "https://example.com/dir/page", "https://example.com/dir/",
     "https://example.com/p;v?x=1"}

\* The pages extract_from_html is given and the settings of the extractor:
\* the two validations on or off, and the number of groups in the patterns
\* of the settings that match in the text.
HtmlInputs ==
    [parsed : BOOLEAN,
     text_emails : {{}, {"Info@Firm.org "}, {"info@firm.org", "admin@example.com"}},
     mailto_emails : {{}, {"sales@firm.org"}},
     text_phones : {{}, {"+7 (916) 554-82-71"}, {"5551234", "8 (916) 554-82-71"}},
     tel_phones : {{}, {"+375296167777"}},
     hrefs : {{}, {"/a", "#top", "mailto:sales@firm.org", "https://example.com/b/"}}]

PatternGroups == 0..2

ExtractorSettings ==
    [enable_email_validation : BOOLEAN, enable_phone_validation : BOOLEAN,
     email_pattern_groups : PatternGroups, phone_pattern_groups : PatternGroups]

crawl_vars ==
    <<pc, start_url, max_pages, max_workers, base_domain, visited, to_visit, results,
      futures, yielded, cache, elapsed, round_start, ever_frontier, fetched, contact,
      last_fetch>>

InitValidators ==
    /\ pc = "start"
    /\ start_url = "https://example.com"
    /\ max_pages = 1
    /\ max_workers = 1
    /\ base_domain = None
    /\ visited = {}
    /\ to_visit = {}
    /\ results = <<>>
    /\ futures = NoFutures
    /\ yielded = {}
    /\ cache = [u \in {} |-> NoneDict]
    /\ elapsed = 0
    /\ round_start = 0
    /\ ever_frontier = {}
    /\ fetched = {}
    /\ contact = NoneDict
    /\ call = NoCall
    /\ last_fetch = NoFetch

CallIsLikelyPhone ==
    /\ call = NoCall
    /\ \E page \in PageUrls, phone \in PhoneCandidates :
         call' = [op |-> "is_likely_phone", page |-> page, arg |-> phone, lib |-> None,
                  step |-> rejecting_step(phone), result |-> is_likely_phone(phone),
                  raised |-> ""]
    /\ UNCHANGED crawl_vars

CallCleanPhone ==
    /\ call = NoCall
    /\ \E phone \in CleanCandidates :
         call' = [op |-> "_clean_phone", page |-> None, arg |-> phone, lib |-> None,
                  step |-> "", result |-> clean_phone(phone), raised |-> ""]
    /\ UNCHANGED crawl_vars

CallNormalizePhone ==
    /\ call = NoCall
    /\ \E page \in PageUrls, phone \in PhoneCandidates :
         \E lib \in PhoneNumbersAnswers(clean_phone(phone)) :
            call' = [op |-> "normalize_phone", page |-> page, arg |-> phone, lib |-> lib,
                     step |-> rejecting_step(phone), result |-> normalize_phone(phone, lib),
                     raised |-> ""]
    /\ UNCHANGED crawl_vars

CallValidateAndNormalizePhones ==
    /\ call = NoCall
    /\ \E page \in PageUrls, phones \in PhoneSets :
         \E lib \in BatchAnswers(phones) :
            call' = [op |-> "validate_and_normalize_phones", page |-> page, arg |-> phones,
                     lib |-> lib, step |-> "",
                     result |-> validate_and_normalize_phones(phones, lib), raised |-> ""]
    /\ UNCHANGED crawl_vars

CallIsValidEmail ==
    /\ call = NoCall
    /\ \E email \in EmailCandidates :
         call' = [op |-> "is_valid_email", page |-> None, arg |-> email, lib |-> None,
                  step |-> "", result |-> is_valid_email(email), raised |-> ""]
    /\ UNCHANGED crawl_vars

CallNormalizeEmail ==
    /\ call = NoCall
    /\ \E email \in EmailCandidates \cup {None} :
         call' = [op |-> "normalize_email", page |-> None, arg |-> email, lib |-> None,
                  step |-> "", result |-> normalize_email_call(email).value,
                  raised |-> normalize_email_call(email).raised]
    /\ UNCHANGED crawl_vars

CallValidateAndNormalizeEmails ==
    /\ call = NoCall
    /\ \E emails \in EmailSets :
         call' = [op |-> "validate_and_normalize_emails", page |-> None, arg |-> emails,
                  lib |-> None, step |-> "",
                  result |-> validate_and_normalize_emails_call(emails).value,
                  raised |-> validate_and_normalize_emails_call(emails).raised]
    /\ UNCHANGED crawl_vars

\* URLNormalizer.normalize_url(url, base_url); call.page is base_url.  What
\* urljoin or urlparse raises is caught and None is returned.
CallNormalizeUrl ==
    /\ call = NoCall
    /\ \E url \in LinkCandidates, base_url \in BaseUrls :
         call' = [op |-> "normalize_url", page |-> base_url, arg |-> url, lib |-> None,
                  step |-> "", result |-> normalize_url(url, base_url), raised |-> ""]
    /\ UNCHANGED crawl_vars

\* DataExtractor.extract_from_html(html); call.lib holds the settings.
CallExtractFromHtml ==
    /\ call = NoCall
    /\ \E html \in HtmlInputs, settings \in ExtractorSettings :
         \E lib \in {[p \in html.text_phones \cup html.tel_phones |-> None]} :
            call' = [op |-> "extract_from_html", page |-> None, arg |-> html,
                     lib |-> settings,
                     step |-> extract_from_html_call(html, settings, lib).step,
                     result |-> extract_from_html_call(html, settings, lib).value,
                     raised |-> ""]
    /\ UNCHANGED crawl_vars

\* The call returns; the validators keep no state between calls.
CallReturn ==
    /\ call # NoCall
    /\ call' = NoCall
    /\ UNCHANGED crawl_vars

NextValidators ==
    \/ CallIsLikelyPhone
    \/ CallCleanPhone
    \/ CallNormalizePhone
    \/ CallValidateAndNormalizePhones
    \/ CallIsValidEmail
    \/ CallNormalizeEmail
    \/ CallValidateAndNormalizeEmails
    \/ CallNormalizeUrl
    \/ CallExtractFromHtml
    \/ CallReturn

SpecValidators == InitValidators /\ [][NextValidators]_vars

(***************************************************************************)
(* Properties.                                                             *)
(***************************************************************************)
LacksSchemeOrHost(url) ==
    TheOne({ parsed.scheme = "" \/ parsed.netloc = "" : parsed \in {urlparse(url)} })

ExitCondition ==
    \/ to_visit = {}
    \/ Cardinality(visited) >= max_pages
    \/ elapsed > max_time

\* C4 (termination): when every page task ends, a crawl that entered its
\* loop leaves it, and when it has left it the frontier is empty, or
\* visited holds max_pages URLs, or the elapsed time exceeds
\* timeout * max_pages.
C4_Termination ==
    /\ (pc = "loop") ~> (pc = "crawl_done")
    /\ [](pc = "crawl_done" => ExitCondition)

\* The loop was left on the time budget, with the seed still in the frontier.
C4_Witness == pc = "crawl_done" /\ to_visit # {} /\ elapsed > max_time

\* C5 (failure isolation): crawl() raises for no seed that has a scheme and
\* a host; handling a task that failed marks its URL visited and changes
\* neither results nor to_visit; a crawl whose every fetch failed returns
\* the empty list.
C5_FailureIsolation ==
    [][/\ pc' = "crawl_raised" => LacksSchemeOrHost(start_url)
       /\ \A u \in DOMAIN futures :
            (/\ futures[u] # Running
             /\ futures[u].result = NoneDict
             /\ u \notin yielded
             /\ u \in yielded')
            => /\ visited' = visited \cup {u}
               /\ results' = results
               /\ to_visit' = to_visit
               /\ pc' = "wait"
       /\ (pc' = "crawl_done" /\ DOMAIN cache = {}) => results' = <<>>]_vars

\* The fetch of the seed failed; the crawl returned the empty list.
C5_Witness ==
    /\ pc = "crawl_done"
    /\ start_url \in fetched
    /\ start_url \notin DOMAIN cache
    /\ start_url \in visited
    /\ results = <<>>

RecordsOf(u) == {i \in DOMAIN results : results[i].url = u}

\* C6 (successful page contributes): at the return of crawl(), every visited
\* URL whose fetch succeeded has exactly one record, holding the e-mail
\* addresses, the phones and the same-domain links of its page.
C6_SuccessfulPageContributes ==
    pc = "crawl_done" =>
        \A u \in visited \cap DOMAIN cache :
            /\ Cardinality(RecordsOf(u)) = 1
            /\ \A i \in RecordsOf(u) :
                 /\ results[i].emails = extract_from_html(cache[u].html).emails
                 /\ results[i].phones = extract_from_html(cache[u].html).phones
                 /\ results[i].links =
                        filter_links(extract_from_html(cache[u].html).links, u, base_domain)

\* C7 (invalid seed is fatal): for a start URL without a scheme or without
\* a host no task is submitted, no URL is fetched, nothing is marked visited
\* and crawl() does not return.
C7_InvalidSeedFatal ==
    LacksSchemeOrHost(start_url) =>
        /\ pc \in {"start", "crawl_raised", "done"}
        /\ fetched = {}
        /\ visited = {}
        /\ DOMAIN futures = {}
        /\ results = <<>>

\* crawl() raised for a seed that has a host and no scheme.
C7_Witness == pc = "crawl_raised" /\ start_url = "//example.com/a"

\* C8 (parse_website never raises): parse_website ends with a ContactInfo,
\* and when crawl() raised its emails and its phones are empty.
C8_ParseWebsiteNeverRaises ==
    [][pc' = "done" =>
        /\ DOMAIN contact' = {"url", "emails", "phones"}
        /\ pc = "crawl_raised" => contact'.emails = <<>> /\ contact'.phones = <<>>]_vars

\* crawl() raised and the start URL is no HttpUrl either.
C8_Witness ==
    /\ pc = "done"
    /\ LacksSchemeOrHost(start_url)
    /\ contact = [url |-> "https://error.invalid/", emails |-> <<>>, phones |-> <<>>]

Range(list) == {list[i] : i \in DOMAIN list}

NoDuplicates(list) == \A i, j \in DOMAIN list : list[i] = list[j] => i = j

Sorted(list) == \A i, j \in DOMAIN list : i < j => StrLess(list[i], list[j])

\* C9 (aggregation): each list of the ContactInfo that parse_website returns
\* is the union of that set over the records of crawl(), without duplicates,
\* in sorted order.
C9_AggregationSorted ==
    pc = "done" =>
        /\ Range(contact.emails) = UnionOver(results, "emails")
        /\ Range(contact.phones) = UnionOver(results, "phones")
        /\ NoDuplicates(contact.emails) /\ NoDuplicates(contact.phones)
        /\ Sorted(contact.emails) /\ Sorted(contact.phones)

\* C10 (per-task timeout): a task that has run longer than timeout plus the
\* grace is abandoned, its URL marked visited, and the crawl does not wait
\* for it.
C10_SlowTaskAbandoned ==
    (pc = "wait" /\ elapsed - round_start > Timeout + Grace + 1) =>
        \A u \in DOMAIN futures : futures[u] = Running => u \in visited

(***************************************************************************)
(* Properties of the validators (SpecValidators).                          *)
(***************************************************************************)
IsDigitString(s) == s # "" /\ \A i \in 1..Len(s) : CharAt(s, i) \in Digits

HasCountryCodePrefix(digits) ==
    \E n \in 1..Len(digits) : SubSeq(digits, 1, n) \in VALID_COUNTRY_CODES

StartsSuspicious(digits) == \E start \in SUSPICIOUS_STARTS : StartsWith(digits, start)

\* C11 (normalization agrees with the plausibility test): a value that
\* normalize_phone returns, when it is not None, passes is_likely_phone,
\* whatever the page.
C11_NormalizedIsLikely ==
    (call.op = "normalize_phone" /\ call.result # None) => is_likely_phone(call.result)

\* C12 (no context, no local number): with no page, is_likely_phone is false
\* for a string of 7 to 15 digits without "+" of which no valid country code
\* is a prefix.
C12_NoLocalWithoutContext ==
    ( /\ call.op = "is_likely_phone"
      /\ call.page = None
      /\ IsDigitString(call.arg)
      /\ Len(call.arg) \in 7..15
      /\ ~HasCountryCodePrefix(call.arg) )
    => call.result = FALSE

\* C13 (context-dependent normalization): 9991234567 normalizes to
\* +79991234567 on a page of a .ru domain and to None without a page.
C13_RussianContext ==
    (call.op = "normalize_phone" /\ call.arg = "9991234567") =>
        /\ (call.page # None /\ EndsWith(get_domain(call.page), ".ru"))
              => call.result = "+79991234567"
        /\ call.page = None => call.result = None

\* The values normalize_phone gives for the phones of the call.
NormalizedOf(c) == {normalize_phone(p, c.lib[p]) : p \in c.arg}

\* C14 (batch phone validation): validate_and_normalize_phones returns the
\* sorted list without duplicates of the values normalize_phone(p), p in the
\* input set, that are not None and pass is_likely_phone; the empty set and
\* the set of the empty string give the empty list.
C14_BatchPhones ==
    call.op = "validate_and_normalize_phones" =>
        /\ Sorted(call.result)
        /\ NoDuplicates(call.result)
        /\ Range(call.result) = {y \in NormalizedOf(call) : y # None /\ is_likely_phone(y)}
        /\ call.arg \subseteq {""} => call.result = <<>>

\* Three phones: two written differently are the same number, one is
\* normalized to a value that the second test drops.
C14_Witness ==
    /\ call.op = "validate_and_normalize_phones"
    /\ Cardinality(call.arg) = 3
    /\ None \notin NormalizedOf(call)
    /\ Cardinality(NormalizedOf(call)) = 2
    /\ Len(call.result) = 1

\* C15 (canonical phone form): every element validate_and_normalize_phones
\* returns is "+" followed by digits only.
C15_CanonicalForm ==
    call.op = "validate_and_normalize_phones" =>
        \A i \in DOMAIN call.result :
            /\ StartsWith(call.result[i], "+")
            /\ IsDigitString(SubSeq(call.result[i], 2, Len(call.result[i])))

\* Phones written with spaces, brackets and dashes are returned.
C15_Witness ==
    /\ call.op = "validate_and_normalize_phones"
    /\ Len(call.result) = 2
    /\ \A p \in call.arg : CharSet(p) \cap {" ", "(", ")", "-"} # {}

\* C16 (dialing code required): is_likely_phone accepts a candidate with a
\* leading "+" only if a valid country code is a prefix of its digits.
C16_DialingCodeRequired ==
    ( /\ call.op = "is_likely_phone"
      /\ StartsWith(clean_phone(call.arg), "+")
      /\ call.result = TRUE )
    => HasCountryCodePrefix(LStrip(clean_phone(call.arg), "+"))

\* C17 (suspicious prefixes only without "+"): is_likely_phone never rejects
\* a candidate with a leading "+" for the start of its digits, and always
\* rejects a candidate without "+" whose digits start with 494, 443, 475,
\* 476, 172 or 173.
C17_SuspiciousOnlyWithoutPlus ==
    call.op = "is_likely_phone" =>
        /\ StartsWith(clean_phone(call.arg), "+") => call.step # "suspicious_start"
        /\ (~StartsWith(clean_phone(call.arg), "+") /\ StartsSuspicious(clean_phone(call.arg)))
              => call.result = FALSE

\* C18 (known non-phone shapes): on every page is_likely_phone rejects
\* 12345678, with or without "+", at the NOT_PHONE patterns, before the
\* rules of country codes and local numbers, and normalize_phone returns
\* None for it.
C18_NotPhoneShape ==
    /\ (call.op = "is_likely_phone" /\ call.arg \in {"12345678", "+12345678"})
          => (call.result = FALSE /\ call.step = "not_phone_pattern")
    /\ (call.op = "normalize_phone" /\ call.arg \in {"12345678", "+12345678"})
          => call.result = None

\* +12345678 is tested on a page of a .ru domain.
C18_Witness ==
    /\ call.op = "is_likely_phone"
    /\ call.arg = "+12345678"
    /\ call.page = "https://example.ru"
    /\ call.result = FALSE

\* The domain of an email once trimmed and lower-cased.
DomainOf(email) == Lower(SplitAt(Strip(email), "@")[2])

SyntacticallyComplete(email) ==
    TheOne({ parts[1] # "" /\ FindAny(parts[2], {"."}, 2) # 0 :
             parts \in {SplitAt(Strip(email), "@")} })

\* C20 (email round trip): for a syntactically complete email whose domain
\* is not in BAD_DOMAINS, is_valid_email gives the same for the email and
\* for normalize_email of it.
C20_RoundTrip ==
    ( /\ call.op = "is_valid_email"
      /\ SyntacticallyComplete(call.arg)
      /\ DomainOf(call.arg) \notin BAD_DOMAINS )
    => is_valid_email(normalize_email(call.arg)) = call.result

\* C21 (empty email): normalize_email of the empty string or of None
\* returns the empty string and raises nothing, and
\* validate_and_normalize_emails of a set of the empty string and None
\* returns the empty list.
C21_EmptyEmail ==
    /\ (call.op = "normalize_email" /\ call.arg \in {"", None})
          => (call.raised = "" /\ call.result = "")
    /\ (call.op = "validate_and_normalize_emails" /\ call.arg # {} /\ call.arg \subseteq {"", None})
          => (call.raised = "" /\ call.result = <<>>)

\* C22 (URL normalization): normalize_url raises nothing; it returns None
\* for an empty link and for a link that starts with "#", "mailto:", "tel:",
\* "javascript:" or "data:"; a result that is not None has a scheme and a
\* host, no query, no fragment and no "/" at its end, and normalize_url of
\* the result is the result.
C22_NormalizeUrl ==
    call.op = "normalize_url" =>
        /\ call.raised = ""
        /\ (call.arg = "" \/ StartsWithAny(call.arg, SkippedPrefixes)) => call.result = None
        /\ call.result # None =>
              /\ ~LacksSchemeOrHost(call.result)
              /\ FindAny(call.result, {"?", "#"}, 1) = 0
              /\ ~EndsWith(call.result, "/")
              /\ normalize_url(call.result, call.page) = call.result

\* C23 (extraction never raises): extract_from_html raises nothing and
\* returns the three sets emails, phones and links, and when the HTML is not
\* parsed or a step of the extraction fails the three sets are empty.
C23_ExtractionFailsEmpty ==
    call.op = "extract_from_html" =>
        /\ call.raised = ""
        /\ DOMAIN call.result = {"emails", "phones", "links"}
        /\ (~call.arg.parsed \/ call.step # "") => call.result = EmptyExtraction

\* A worker task ends: a future that was running is done.
TaskEnds ==
    \E u \in DOMAIN futures :
        /\ u \in DOMAIN futures'
        /\ futures[u] = Running
        /\ futures'[u] # Running

\* C25 (worker tasks do not touch the frontier): the step in which a worker
\* task ends leaves visited, to_visit and results as they were and puts the
\* task's links in its future; every step that changes one of the three is
\* a step of the thread of crawl(): the start of crawl(), the dispatch of a
\* batch, or the loop body for a future that is done.
C25_WorkersLeaveFrontier ==
    [][ /\ TaskEnds =>
            /\ UNCHANGED <<visited, to_visit, results>>
            /\ \A u \in DOMAIN futures' :
                  futures'[u] # Running => futures'[u].links \in SUBSET STRING
        /\ <<visited, to_visit, results>>' # <<visited, to_visit, results>> =>
            \/ pc = "start"
            \/ pc = "loop" /\ pc' = "wait"
            \/ pc = "wait" /\ yielded' # yielded
      ]_vars

\* A task has ended and the loop body has not run for it yet: its URL is
\* not in visited.
C25_Witness ==
    /\ pc = "wait"
    /\ \E u \in DOMAIN futures : futures[u] # Running /\ u \notin yielded /\ u \notin visited

\* C26 (time budget at round boundaries only): a round that has started is
\* left only for the next test of the while condition, and only when every
\* task of its batch is done and its URL is in visited, whatever the elapsed
\* time is; a batch is dispatched only when the elapsed time is within
\* timeout x max_pages, and at a boundary where it is exceeded the only
\* step of crawl() is the break.
C26_BudgetAtBoundaries ==
    [][ /\ (pc = "wait" /\ pc' # "wait") =>
            /\ pc' = "loop"
            /\ \A u \in DOMAIN futures : futures[u] # Running /\ u \in visited
        /\ (pc = "loop" /\ pc' = "wait") => elapsed <= max_time
        /\ (pc = "loop" /\ pc' # "loop" /\ elapsed > max_time) => pc' = "crawl_done"
      ]_vars

\* A round was started within the budget, the budget ran out during the
\* round, and the round was completed: its URL is in visited.
C26_Witness ==
    /\ pc = "loop"
    /\ DOMAIN futures # {}
    /\ round_start <= max_time
    /\ elapsed > max_time
    /\ \E u \in DOMAIN futures : futures[u] # Running /\ u \in visited

\* The page tasks that were submitted and have not ended.
InFlight == {u \in DOMAIN futures : futures[u] = Running}

C28_CleanPhone ==
    call.op = "_clean_phone" =>
        /\ CharSet(call.result) \subseteq Digits \cup {"+"}
        /\ CountIn(call.result, {"+"}) <= 1
        /\ FindAny(call.result, {"+"}, 1) # 0 => StartsWith(call.arg, "+")
        /\ call.arg \in {"", None} => call.result = ""
        /\ clean_phone(call.result) = call.result

\* C30 (page cache): an entry of the cache is never changed or removed; a
\* step puts a URL in the cache only when fetch_page got its page from the
\* network with an HTML content type and a body within the cap, and the
\* entry is that page; a fetch that fails or gets an oversized body leaves
\* the cache as it was; fetch_page of a cached URL, also in a later call of
\* crawl() on the same crawler, returns the stored page and makes no
\* network request.
C30_PageCache ==
    [][ /\ \A u \in DOMAIN cache : u \in DOMAIN cache' /\ cache'[u] = cache[u]
        /\ \A u \in DOMAIN cache' \ DOMAIN cache :
              last_fetch' = [url |-> u, kind |-> "ok", page |-> cache'[u], network |-> TRUE]
        /\ \A u \in DOMAIN futures :
              (u \in DOMAIN futures' /\ futures[u] = Running /\ futures'[u] # Running) =>
                 /\ last_fetch'.url = u
                 /\ last_fetch'.kind \notin {"ok", "cached"} =>
                        (cache' = cache /\ last_fetch'.page = NoneDict)
                 /\ u \in DOMAIN cache =>
                        /\ last_fetch' = [url |-> u, kind |-> "cached", page |-> cache[u],
                                          network |-> FALSE]
                        /\ fetched' = fetched
      ]_vars

\* In a later call of crawl() the page of the start URL came from the cache:
\* no request was made in this call.
C30_Witness ==
    /\ pc = "wait"
    /\ start_url \in DOMAIN cache
    /\ last_fetch = [url |-> start_url, kind |-> "cached", page |-> cache[start_url],
                     network |-> FALSE]
    /\ fetched = {}

====
